---- MODULE Spec2Model ----
(***************************************************************************)
(* Connection workflow of the dev-tinder backend: the ConnectionRequest    *)
(* collection, the User collection and the request handlers of             *)
(* requestsRouter, userRouter and profileRouter.  Every handler is an      *)
(* async function: it runs up to its next `await` as one step, and the     *)
(* awaited database call is one atomic operation of the store.  A slot is  *)
(* one HTTP request being served; its pc names the database call it is     *)
(* waiting for.                                                            *)
(***************************************************************************)
EXTENDS Integers, FiniteSets

\* ---- bounds of the model ----
\* signups that drew a User _id (stored or refused by the store)
MaxUsers == 2
\* connection-request documents ever inserted
MaxRecords == 3
\* HTTP requests served at the same time
MaxInFlight == 2
\* largest ?page= value a client sends
MaxPage == 2
\* largest ?limit= value a client sends
MaxLimit == 1
\* user accounts of a feed snapshot
FeedUsers == 3
\* connection-request documents of a feed snapshot
MaxFeedRecords == 2
\* distinct passwords of each kind (strong, weak) a client types
MaxPassword == 2
\* distinct values of each kind (valid, invalid) a client puts in a profile field
MaxValue == 1

UserIds == 1..MaxUsers
RecordIds == 1..MaxRecords
Slots == 1..MaxInFlight

\* ---- values of the source ----
\* connectionRequestSchema.status enum
Statuses == {"interested", "ignored", "accepted", "rejected"}
\* allowedStatuses of the send route
SendStatuses == {"interested", "ignored"}
\* allowedStatuses of the review route
ReviewStatuses == {"accepted", "rejected"}

\* no document (findOne returned null)
NoDoc == [id |-> 0, status |-> "none"]

\* the body of a response that carries a message only: no list, no feed, no
\* paging fields
NoOut == [list |-> {}, feed |-> {}, page |-> 0, limit |-> 0, total |-> 0,
          totalPages |-> 0, hasNextPage |-> "absent"]

\* userSchema: the paths next to emailID and password
ProfileFields ==
    {"firstName", "lastName", "age", "gender", "photoUrl", "about", "skills"}

\* the paths of userSchema that have a validator (minlength, min, validate)
ValidatedFields ==
    {"firstName", "emailID", "password", "age", "gender", "photoUrl", "skills"}

\* a value of a profile field in a request body: n tells values apart, ok
\* tells whether the value passes the validator of a validated path
FieldValues == {[ok |-> b, n |-> k] : b \in BOOLEAN, k \in 1..MaxValue}

\* a password as typed: n tells passwords apart, strong is the verdict of
\* validator.isStrongPassword
PlainPasswords == {[strong |-> b, n |-> k] : b \in BOOLEAN, k \in 1..MaxPassword}

\* bcrypt.hash(password, 10)
Hash(password) == [bcrypt |-> password]

\* bcrypt.compare(password, hash)
Compare(password, hash) == hash = Hash(password)

\* req.body of a request without a body
NoBody == [k \in {} |-> 0]

VARIABLES
    users,      \* _id of every document of the User collection
    docs,       \* the User collection: _id -> [emailID, password, profile]
    nextUser,   \* the next fresh User _id
    records,    \* the ConnectionRequest collection: [id, from, to, status]
    nextId,     \* the next fresh ConnectionRequest _id
    req         \* per slot: the request being served

vars == <<users, docs, nextUser, records, nextId, req>>

\* no user document
NullUser == [emailID |-> 0, password |-> Hash([strong |-> FALSE, n |-> 0]),
             profile |-> [f \in ProfileFields |-> [ok |-> FALSE, n |-> 0]]]

\* the locals of a handler between its awaits: the documents a query on
\* ConnectionRequest returned, the users the populate query of each path
\* returned, the ids the feed excludes, the count of the feed, and the user
\* document the handler holds (req.user, or the user a login found)
NoLocals == [requests |-> {}, fromUsers |-> {}, toUsers |-> {},
             excludedIds |-> {}, totalUsers |-> 0, user |-> NullUser]

Idle == [pc |-> "idle", op |-> "none", actor |-> 0, target |-> 0,
         status |-> "none", doc |-> NoDoc, res |-> "none", out |-> NoOut,
         body |-> NoBody, locals |-> NoLocals]

\* a slot that can take a new request: nothing in flight on it
Free(s) == req[s].pc = "idle"

\* a request as it arrives
Request(op, actor, target, status) ==
    [Idle EXCEPT !.op = op, !.actor = actor, !.target = target, !.status = status]

\* the handler has responded to request r with res: its locals are gone
Done(r, res) ==
    [r EXCEPT !.pc = "done", !.doc = NoDoc, !.locals = NoLocals, !.res = res]

\* ---- the store ----
\* User.findById(id)
UserFindById(id) == id \in users

\* ConnectionRequest.find({fromUserId: f, toUserId: t})
FindByPair(f, t) == {r \in records : r.from = f /\ r.to = t}

\* slip: the collection has no unique index
UniqueIndexAllows_NoIndex(f, t) == TRUE

\* slip: the unique index is on the unordered pair
UniqueIndexAllows_Unordered(f, t) == FindByPair(f, t) = {} /\ FindByPair(t, f) = {}

\* the unique index {fromUserId: 1, toUserId: 1} admits a document for (f, t)
UniqueIndexAllows(f, t) == FindByPair(f, t) = {}

\* slip: the token is verified but the user is not looked up
userAuth_TokenOnly(userId) == TRUE

\* userAuth: the token verifies and names userId; the user must still exist
userAuth(userId) == UserFindById(userId)

\* the document of user id, or null
UserDoc(id) == IF id \in DOMAIN docs THEN docs[id] ELSE NullUser

\* the body a client signs up with: an e-mail address of its own, a strong
\* password, valid profile values and a last name of its own
SignupPassword == [strong |-> TRUE, n |-> 1]
SignupDoc(id) ==
    [emailID |-> id,
     password |-> Hash(SignupPassword),
     profile |-> [f \in ProfileFields |->
                    IF f = "lastName" THEN [ok |-> TRUE, n |-> id]
                    ELSE [ok |-> TRUE, n |-> 0]]]

Init ==
    /\ users = {}
    /\ docs = [u \in {} |-> NullUser]
    /\ nextUser = 1
    /\ records = {}
    /\ nextId = 1
    /\ req = [s \in Slots |-> Idle]

\* POST /auth/signup: new User(...) draws a fresh _id, the token that names it
\* is signed and set as a cookie, and only then user.save() runs.  saved tells
\* whether the document passes the validators of the schema and the unique
\* indexes: if so it is inserted, if not the handler answers 500 and nothing
\* is stored, the cookie being set either way.
Signup(saved) ==
    /\ nextUser <= MaxUsers
    /\ users' = IF saved THEN users \cup {nextUser} ELSE users
    /\ docs' = IF saved
               THEN [u \in users \cup {nextUser} |->
                        IF u = nextUser THEN SignupDoc(nextUser) ELSE docs[u]]
               ELSE docs
    /\ nextUser' = nextUser + 1
    /\ UNCHANGED <<records, nextId, req>>

\* identities a token can name: every _id a signup has signed a token for,
\* whether its document was stored, was deleted since, or was never stored
TokenUsers == 1..(nextUser - 1)

\* number of send requests in flight (each may still insert one document)
SendsInFlight ==
    Cardinality({s \in Slots : req[s].op = "send" /\ req[s].pc \notin {"idle", "done"}})

\* ---- POST /request/send/:status/:toUserId ----
\* the request arrives: userAuth, then the handler up to its first await
\* (status validation)
SendCall(s, actor, toUserId, status) ==
    /\ Free(s)
    /\ nextId + SendsInFlight <= MaxRecords
    /\ req' = [req EXCEPT ![s] =
        IF ~userAuth(actor) THEN Done(Request("send", actor, toUserId, status), "Unauthorized")
        ELSE IF status \notin SendStatuses THEN Done(Request("send", actor, toUserId, status), "InvalidStatus")
        ELSE [Request("send", actor, toUserId, status) EXCEPT !.pc = "send_findTo"]]
    /\ UNCHANGED <<users, docs, nextUser, records, nextId>>

\* slip: the self-request test never fires
IsSelfRequest_Never(fromUserId, toUserId) == FALSE

\* fromUserId.toString() === toUserId.toString() of the send route
IsSelfRequest(fromUserId, toUserId) == fromUserId = toUserId

\* await User.findById(toUserId) returns; then the self-request test
SendFindTo(s) ==
    /\ req[s].pc = "send_findTo"
    /\ req' = [req EXCEPT ![s] =
        IF ~UserFindById(req[s].target) THEN Done(req[s], "UserNotFound")
        ELSE IF IsSelfRequest(req[s].actor, req[s].target)
             THEN Done(req[s], "SelfRequestForbidden")
        ELSE [req[s] EXCEPT !.pc = "send_findReverse"]]
    /\ UNCHANGED <<users, docs, nextUser, records, nextId>>

\* slip: the reverse lookup is skipped
ReverseRequest_Skipped(fromUserId, toUserId) == {}

\* slip: the reverse lookup queries the same direction as the duplicate lookup
ReverseRequest_SameDirection(fromUserId, toUserId) == FindByPair(fromUserId, toUserId)

\* slip: the reverse lookup ignores ignored requests
ReverseRequest_NotIgnored(fromUserId, toUserId) ==
    {r \in FindByPair(toUserId, fromUserId) : r.status # "ignored"}

\* slip: the reverse lookup ignores rejected requests
ReverseRequest_NotRejected(fromUserId, toUserId) ==
    {r \in FindByPair(toUserId, fromUserId) : r.status # "rejected"}

\* const reverseRequest = await ConnectionRequest.findOne({fromUserId: toUserId, toUserId: fromUserId})
ReverseRequest(fromUserId, toUserId) == FindByPair(toUserId, fromUserId)

SendFindReverse(s) ==
    /\ req[s].pc = "send_findReverse"
    /\ req' = [req EXCEPT ![s] =
        IF ReverseRequest(req[s].actor, req[s].target) # {}
        THEN Done(req[s], "ReverseRequestExists")
        ELSE [req[s] EXCEPT !.pc = "send_findExisting"]]
    /\ UNCHANGED <<users, docs, nextUser, records, nextId>>

\* slip: the duplicate lookup is skipped
ExistingRequest_Skipped(fromUserId, toUserId) == {}

\* slip: the duplicate lookup leaves out toUserId
ExistingRequest_AnyTarget(fromUserId, toUserId) == {r \in records : r.from = fromUserId}

\* const existingRequest = await ConnectionRequest.findOne({fromUserId, toUserId})
ExistingRequest(fromUserId, toUserId) == FindByPair(fromUserId, toUserId)

SendFindExisting(s) ==
    /\ req[s].pc = "send_findExisting"
    /\ req' = [req EXCEPT ![s] =
        IF ExistingRequest(req[s].actor, req[s].target) # {}
        THEN Done(req[s], "DuplicateRelationship")
        ELSE [req[s] EXCEPT !.pc = "send_save"]]
    /\ UNCHANGED <<users, docs, nextUser, records, nextId>>

\* await newRequest.save(): the insert, refused by the unique index when the
\* ordered pair already has a document (the catch block answers 500)
SendSave(s) ==
    /\ req[s].pc = "send_save"
    /\ IF UniqueIndexAllows(req[s].actor, req[s].target)
       THEN /\ records' = records \cup
                   {[id |-> nextId, from |-> req[s].actor, to |-> req[s].target,
                     status |-> req[s].status]}
            /\ nextId' = nextId + 1
            /\ req' = [req EXCEPT ![s] = Done(req[s], "Created")]
       ELSE /\ req' = [req EXCEPT ![s] = Done(req[s], "ServerError")]
            /\ UNCHANGED <<records, nextId>>
    /\ UNCHANGED <<users, docs, nextUser>>

\* ---- POST /request/review/:status/:fromUserId ----
\* the request arrives: userAuth, then status validation
ReviewCall(s, actor, fromUserId, status) ==
    /\ Free(s)
    /\ req' = [req EXCEPT ![s] =
        IF ~userAuth(actor) THEN Done(Request("review", actor, fromUserId, status), "Unauthorized")
        ELSE IF status \notin ReviewStatuses THEN Done(Request("review", actor, fromUserId, status), "InvalidStatus")
        ELSE [Request("review", actor, fromUserId, status) EXCEPT !.pc = "review_findReq"]]
    /\ UNCHANGED <<users, docs, nextUser, records, nextId>>

\* slip: every status other than interested counts as reviewed
IsReviewed_NotInterested(status) == status # "interested"

\* slip: only an accepted request counts as reviewed
IsReviewed_OnlyAccepted(status) == status = "accepted"

\* existingRequest.status === "accepted" || existingRequest.status === "rejected"
IsReviewed(status) == status = "accepted" \/ status = "rejected"

\* slip: the lookup leaves out toUserId
ReviewFindReq_AnyRecipient(s) ==
    /\ req[s].pc = "review_findReq"
    /\ LET found == {r \in records : r.from = req[s].target} IN
       IF found = {}
       THEN req' = [req EXCEPT ![s] = Done(req[s], "RequestNotFound")]
       ELSE \E r \in found :
              req' = [req EXCEPT ![s] =
                IF IsReviewed(r.status) THEN Done(req[s], "AlreadyReviewed")
                ELSE [req[s] EXCEPT !.pc = "review_findFrom",
                                    !.doc = [id |-> r.id, status |-> r.status]]]
    /\ UNCHANGED <<users, docs, nextUser, records, nextId>>

\* await ConnectionRequest.findOne({fromUserId, toUserId}) returns a document
\* (a copy of the stored one); then the already-reviewed test on that copy
ReviewFindReq(s) ==
    /\ req[s].pc = "review_findReq"
    /\ LET found == FindByPair(req[s].target, req[s].actor) IN
       IF found = {}
       THEN req' = [req EXCEPT ![s] = Done(req[s], "RequestNotFound")]
       ELSE \E r \in found :
              req' = [req EXCEPT ![s] =
                IF IsReviewed(r.status) THEN Done(req[s], "AlreadyReviewed")
                ELSE [req[s] EXCEPT !.pc = "review_findFrom",
                                    !.doc = [id |-> r.id, status |-> r.status]]]
    /\ UNCHANGED <<users, docs, nextUser, records, nextId>>

\* fromUserId.toString() === toUserId.toString() of the review route
IsSelfReview(fromUserId, toUserId) == fromUserId = toUserId

\* slip: the sender is not looked up
ReviewFindFrom_NoSenderCheck(s) ==
    /\ req[s].pc = "review_findFrom"
    /\ req' = [req EXCEPT ![s] =
        IF IsSelfReview(req[s].target, req[s].actor)
        THEN Done(req[s], "SelfReviewForbidden")
        ELSE IF req[s].doc.status # "interested" THEN Done(req[s], "OnlyInterested")
        ELSE [req[s] EXCEPT !.pc = "review_save"]]
    /\ UNCHANGED <<users, docs, nextUser, records, nextId>>

\* await User.findById(fromUserId) returns; then the self-review test and the
\* test that the document read earlier is "interested"
ReviewFindFrom(s) ==
    /\ req[s].pc = "review_findFrom"
    /\ req' = [req EXCEPT ![s] =
        IF ~UserFindById(req[s].target) THEN Done(req[s], "UserNotFound")
        ELSE IF IsSelfReview(req[s].target, req[s].actor)
             THEN Done(req[s], "SelfReviewForbidden")
        ELSE IF req[s].doc.status # "interested" THEN Done(req[s], "OnlyInterested")
        ELSE [req[s] EXCEPT !.pc = "review_save"]]
    /\ UNCHANGED <<users, docs, nextUser, records, nextId>>

\* slip: the update sets the status of every request of the sender
ReviewSave_AllOfSender(s) ==
    /\ req[s].pc = "review_save"
    /\ records' = {IF r.from = req[s].target
                    THEN [r EXCEPT !.status = req[s].status]
                    ELSE r : r \in records}
    /\ req' = [req EXCEPT ![s] = Done(req[s], "Reviewed")]
    /\ UNCHANGED <<users, docs, nextUser, nextId>>

\* existingRequest.status = status; await existingRequest.save(): an update
\* of the status of the document with that _id, whatever its stored status;
\* save() of a document that is no longer stored throws DocumentNotFoundError
\* (the catch answers 500)
ReviewSave(s) ==
    /\ req[s].pc = "review_save"
    /\ IF \E r \in records : r.id = req[s].doc.id
       THEN /\ records' = {IF r.id = req[s].doc.id
                           THEN [r EXCEPT !.status = req[s].status]
                           ELSE r : r \in records}
            /\ req' = [req EXCEPT ![s] = Done(req[s], "Reviewed")]
       ELSE /\ req' = [req EXCEPT ![s] = Done(req[s], "ServerError")]
            /\ UNCHANGED records
    /\ UNCHANGED <<users, docs, nextUser, nextId>>

\* ---- DELETE /user/deleteconnections/:userId ----
RemoveCall(s, actor, userId) ==
    /\ Free(s)
    /\ req' = [req EXCEPT ![s] =
        IF ~userAuth(actor) THEN Done(Request("remove", actor, userId, "none"), "Unauthorized")
        ELSE [Request("remove", actor, userId, "none") EXCEPT !.pc = "remove_findConn"]]
    /\ UNCHANGED <<users, docs, nextUser, records, nextId>>

\* slip: the query leaves out status: "accepted"
AcceptedBetween_AnyStatus(a, b) == FindByPair(a, b) \cup FindByPair(b, a)

\* ConnectionRequest.find({status: "accepted", $or: [{from: a, to: b}, {from: b, to: a}]})
AcceptedBetween(a, b) ==
    {r \in FindByPair(a, b) \cup FindByPair(b, a) : r.status = "accepted"}

\* await ConnectionRequest.findOne(...) returns one matching document
RemoveFindConn(s) ==
    /\ req[s].pc = "remove_findConn"
    /\ LET found == AcceptedBetween(req[s].actor, req[s].target) IN
       IF found = {}
       THEN req' = [req EXCEPT ![s] = Done(req[s], "ConnectionNotFound")]
       ELSE \E r \in found :
              req' = [req EXCEPT ![s] =
                [req[s] EXCEPT !.pc = "remove_delete",
                               !.doc = [id |-> r.id, status |-> r.status]]]
    /\ UNCHANGED <<users, docs, nextUser, records, nextId>>

\* await ConnectionRequest.deleteOne({_id: connection._id}); answers 200
RemoveDelete(s) ==
    /\ req[s].pc = "remove_delete"
    /\ records' = {r \in records : r.id # req[s].doc.id}
    /\ req' = [req EXCEPT ![s] = Done(req[s], "ConnectionDeleted")]
    /\ UNCHANGED <<users, docs, nextUser, nextId>>

\* ---- GET /user/requests ----
\* populate(path) of a reference: the referenced user document, or null when
\* no user has that _id any more
NullRef == 0

\* the query populate issues for one path: User.find({_id: {$in: ids}})
UsersFound(ids) == {u \in ids : UserFindById(u)}

\* the reference id after populate: the user among those the query found
Populate(id, found) == IF id \in found THEN id ELSE NullRef

\* ConnectionRequest.find({toUserId: userId})
RequestsTo(userId) == {r \in records : r.to = userId}

\* slip: the filter on status is left out
PendingRequests_All(requests) == requests

\* requests.filter(request => request.status === "interested")
PendingRequests(requests) == {r \in requests : r.status = "interested"}

\* the request arrives: userAuth; the handler runs up to its query
GetRequestsCall(s, actor) ==
    /\ Free(s)
    /\ req' = [req EXCEPT ![s] =
        IF ~userAuth(actor) THEN Done(Request("requests", actor, 0, "none"), "Unauthorized")
        ELSE [Request("requests", actor, 0, "none") EXCEPT !.pc = "requests_find"]]
    /\ UNCHANGED <<users, docs, nextUser, records, nextId>>

\* the query reads the documents of ConnectionRequest.  With none found no
\* query is issued on User and the handler answers at once; otherwise the
\* references are populated by a second query, on User.
GetRequestsFind(s) ==
    /\ req[s].pc = "requests_find"
    /\ req' = [req EXCEPT ![s] =
        IF RequestsTo(req[s].actor) = {} THEN Done(req[s], "NoRequests")
        ELSE [req[s] EXCEPT !.pc = "requests_populate",
                            !.locals.requests = RequestsTo(req[s].actor)]]
    /\ UNCHANGED <<users, docs, nextUser, records, nextId>>

\* the senders of the documents found are populated from User as it is now and
\* the handler answers.  A listed request carries its populated sender.
GetRequestsPopulate(s) ==
    /\ req[s].pc = "requests_populate"
    /\ req' = [req EXCEPT ![s] =
        IF PendingRequests(req[s].locals.requests) = {}
        THEN Done(req[s], "NoPendingRequests")
        ELSE [Done(req[s], "RequestsFetched")
                EXCEPT !.out.list =
                    {[id |-> r.id,
                      user |-> Populate(r.from,
                                        UsersFound({q.from : q \in req[s].locals.requests}))] :
                        r \in PendingRequests(req[s].locals.requests)}]]
    /\ UNCHANGED <<users, docs, nextUser, records, nextId>>

\* ---- GET /user/connections ----
\* ConnectionRequest.find({$or: [{fromUserId: userId, status: "accepted"},
\*                               {toUserId: userId, status: "accepted"}]})
AcceptedRequests(userId) ==
    {r \in records : r.status = "accepted" /\ (r.from = userId \/ r.to = userId)}

\* request.fromUserId._id of the map callback reads a property of null when
\* the populated sender is null: a TypeError
MapThrows(acceptedRequests, fromUsers) ==
    \E r \in acceptedRequests : Populate(r.from, fromUsers) = NullRef

\* acceptedRequests.map(...): one entry per accepted request, the populated
\* recipient when the populated sender is the caller, else the populated sender
Connections(userId, acceptedRequests, fromUsers, toUsers) ==
    {[id |-> r.id,
      user |-> IF Populate(r.from, fromUsers) = userId
               THEN Populate(r.to, toUsers)
               ELSE Populate(r.from, fromUsers)] :
        r \in acceptedRequests}

\* the request arrives: userAuth; the handler runs up to its query
GetConnectionsCall(s, actor) ==
    /\ Free(s)
    /\ req' = [req EXCEPT ![s] =
        IF ~userAuth(actor) THEN Done(Request("connections", actor, 0, "none"), "Unauthorized")
        ELSE [Request("connections", actor, 0, "none") EXCEPT !.pc = "connections_find"]]
    /\ UNCHANGED <<users, docs, nextUser, records, nextId>>

\* the query reads the accepted documents of ConnectionRequest.  With none
\* found no query is issued on User and the handler answers at once; otherwise
\* populate issues one query on User for each of the two paths.
GetConnectionsFind(s) ==
    /\ req[s].pc = "connections_find"
    /\ req' = [req EXCEPT ![s] =
        IF AcceptedRequests(req[s].actor) = {} THEN Done(req[s], "NoConnections")
        ELSE [req[s] EXCEPT !.pc = "connections_populate",
                            !.locals.requests = AcceptedRequests(req[s].actor)]]
    /\ UNCHANGED <<users, docs, nextUser, records, nextId>>

\* both paths are populated: the map runs inside the try block, so its
\* TypeError is answered by the catch block with 500
ConnectionsAnswer(r) ==
    IF MapThrows(r.locals.requests, r.locals.fromUsers) THEN Done(r, "ServerError")
    ELSE IF Connections(r.actor, r.locals.requests, r.locals.fromUsers, r.locals.toUsers) = {}
         THEN Done(r, "NoConnections")
    ELSE [Done(r, "ConnectionsFetched")
            EXCEPT !.out.list = Connections(r.actor, r.locals.requests,
                                            r.locals.fromUsers, r.locals.toUsers)]

\* the query of path fromUserId reads User as it is now; it completes before
\* or after the query of path toUserId, and the handler answers when both have
GetConnectionsPopulateFrom(s) ==
    /\ req[s].pc \in {"connections_populate", "connections_populateFrom"}
    /\ req' = [req EXCEPT ![s] =
        IF req[s].pc = "connections_populate"
        THEN [req[s] EXCEPT !.pc = "connections_populateTo",
                            !.locals.fromUsers =
                                UsersFound({r.from : r \in req[s].locals.requests})]
        ELSE ConnectionsAnswer(
                [req[s] EXCEPT !.locals.fromUsers =
                                UsersFound({r.from : r \in req[s].locals.requests})])]
    /\ UNCHANGED <<users, docs, nextUser, records, nextId>>

\* the query of path toUserId reads User as it is now
GetConnectionsPopulateTo(s) ==
    /\ req[s].pc \in {"connections_populate", "connections_populateTo"}
    /\ req' = [req EXCEPT ![s] =
        IF req[s].pc = "connections_populate"
        THEN [req[s] EXCEPT !.pc = "connections_populateFrom",
                            !.locals.toUsers =
                                UsersFound({r.to : r \in req[s].locals.requests})]
        ELSE ConnectionsAnswer(
                [req[s] EXCEPT !.locals.toUsers =
                                UsersFound({r.to : r \in req[s].locals.requests})])]
    /\ UNCHANGED <<users, docs, nextUser, records, nextId>>

\* ---- GET /user/feed ----
\* a query parameter: absent (or not a number), or the integer n it spells
QueryValues(max) ==
    {[has |-> FALSE, n |-> 0]} \cup {[has |-> TRUE, n |-> k] : k \in (-1)..max}

DefaultPage == 1
DefaultLimit == 10

\* parseInt(q) || d: NaN and 0 are falsy
ParseIntOr(q, d) == IF ~q.has \/ q.n = 0 THEN d ELSE q.n

\* Math.max(n, 1)
AtLeastOne(n) == IF n < 1 THEN 1 ELSE n

FeedPage(q) == AtLeastOne(ParseIntOr(q, DefaultPage))
FeedLimit(q) == AtLeastOne(ParseIntOr(q, DefaultLimit))

\* slip: only rejected requests are left out of the lookup
ExcludedRequests_NotRejected(userId) ==
    {r \in records : (r.from = userId \/ r.to = userId) /\ r.status # "rejected"}

\* ConnectionRequest.find({$or: [{fromUserId: userId}, {toUserId: userId}]})
ExcludedRequests(userId) == {r \in records : r.from = userId \/ r.to = userId}

\* slip: only the senders of the requests are collected
ExcludedUserIds_SendersOnly(userId) ==
    {r.from : r \in ExcludedRequests(userId)} \cup {userId}

\* the Set built by reduce, plus the caller
ExcludedUserIds(userId) ==
    {r.from : r \in ExcludedRequests(userId)}
        \cup {r.to : r \in ExcludedRequests(userId)} \cup {userId}

\* the users matched by {_id: {$nin: excludedIdsArray}}
Matching(excludedIdsArray) == users \ excludedIdsArray

\* User.countDocuments({_id: {$nin: excludedIdsArray}})
TotalUsers(excludedIdsArray) == Cardinality(Matching(excludedIdsArray))

\* Math.ceil(total / limit)
CeilDiv(total, limit) == (total + limit - 1) \div limit

\* number of documents left by .skip(skip).limit(limit) out of total matches
PageLength(total, skip, limit) ==
    IF total <= skip THEN 0
    ELSE IF total - skip < limit THEN total - skip ELSE limit

\* User.find({_id: {$nin: ...}}).skip(skip).limit(limit) has no sort(): the
\* store returns the matches in an order of its choosing, chosen anew by every
\* query, so the page may be any PageLength of the matching users
FeedUsersOf(excludedIdsArray, skip, limit) ==
    {items \in SUBSET Matching(excludedIdsArray) :
        Cardinality(items) = PageLength(TotalUsers(excludedIdsArray), skip, limit)}

\* the JSON body of the feed response; the body of an empty page has no
\* hasNextPage key
FeedBody(totalUsers, items, page, limit) ==
    [list |-> {}, feed |-> items, page |-> page, limit |-> limit,
     total |-> totalUsers,
     totalPages |-> CeilDiv(totalUsers, limit),
     hasNextPage |-> IF items = {} THEN "absent"
                     ELSE IF page * limit < totalUsers THEN "true" ELSE "false"]

\* the request arrives: userAuth; page and limit are read from the query and
\* the handler runs up to its first query
GetFeedCall(s, actor, pageQ, limitQ) ==
    /\ Free(s)
    /\ req' = [req EXCEPT ![s] =
        IF ~userAuth(actor) THEN Done(Request("feed", actor, 0, "none"), "Unauthorized")
        ELSE [Request("feed", actor, 0, "none")
                EXCEPT !.pc = "feed_findRequests",
                       !.out.page = FeedPage(pageQ), !.out.limit = FeedLimit(limitQ)]]
    /\ UNCHANGED <<users, docs, nextUser, records, nextId>>

\* step 1 and 2: the requests of the caller are read and the ids to exclude
\* are collected
GetFeedFindRequests(s) ==
    /\ req[s].pc = "feed_findRequests"
    /\ req' = [req EXCEPT ![s] =
        [req[s] EXCEPT !.pc = "feed_count",
                       !.locals.excludedIds = ExcludedUserIds(req[s].actor)]]
    /\ UNCHANGED <<users, docs, nextUser, records, nextId>>

\* step 3: the users outside the excluded ids are counted
GetFeedCount(s) ==
    /\ req[s].pc = "feed_count"
    /\ req' = [req EXCEPT ![s] =
        [req[s] EXCEPT !.pc = "feed_findUsers",
                       !.locals.totalUsers = TotalUsers(req[s].locals.excludedIds)]]
    /\ UNCHANGED <<users, docs, nextUser, records, nextId>>

\* step 4: the page is read from User as it is now and the handler answers
\* with the count of step 3
GetFeedFindUsers(s) ==
    /\ req[s].pc = "feed_findUsers"
    /\ \E items \in FeedUsersOf(req[s].locals.excludedIds,
                                (req[s].out.page - 1) * req[s].out.limit,
                                req[s].out.limit) :
          req' = [req EXCEPT ![s] =
            [Done(req[s], IF items = {} THEN "FeedEmpty" ELSE "FeedFetched")
                EXCEPT !.out = FeedBody(req[s].locals.totalUsers, items,
                                        req[s].out.page, req[s].out.limit)]]
    /\ UNCHANGED <<users, docs, nextUser, records, nextId>>

\* ---- DELETE /profile/delete ----
DeleteAccountCall(s, actor) ==
    /\ Free(s)
    /\ req' = [req EXCEPT ![s] =
        IF ~userAuth(actor) THEN Done(Request("deleteAccount", actor, 0, "none"), "Unauthorized")
        ELSE [Request("deleteAccount", actor, 0, "none") EXCEPT !.pc = "delete_user"]]
    /\ UNCHANGED <<users, docs, nextUser, records, nextId>>

\* slip: the requests of the deleted user are deleted with the account
DeleteAccountDelete_Cascade(s) ==
    /\ req[s].pc = "delete_user"
    /\ users' = users \ {req[s].actor}
    /\ docs' = [u \in users \ {req[s].actor} |-> docs[u]]
    /\ records' = {r \in records : r.from # req[s].actor /\ r.to # req[s].actor}
    /\ req' = [req EXCEPT ![s] = Done(req[s], "UserDeleted")]
    /\ UNCHANGED <<nextUser, nextId>>

\* await User.deleteOne({_id: userId}): the user document only
DeleteAccountDelete(s) ==
    /\ req[s].pc = "delete_user"
    /\ users' = users \ {req[s].actor}
    /\ docs' = [u \in users \ {req[s].actor} |-> docs[u]]
    /\ req' = [req EXCEPT ![s] = Done(req[s], "UserDeleted")]
    /\ UNCHANGED <<nextUser, records, nextId>>

\* ---- GET /profile/view ----
\* the route answers with req.user, the document userAuth has read
GetProfile(s, actor) ==
    /\ Free(s)
    /\ req' = [req EXCEPT ![s] =
        IF ~userAuth(actor) THEN Done(Request("view", actor, 0, "none"), "Unauthorized")
        ELSE Done(Request("view", actor, 0, "none"), "ProfileFetched")]
    /\ UNCHANGED <<users, docs, nextUser, records, nextId>>

\* ---- PUT /profile/edit ----
\* ALLOWED_UPDATES of validateUpdateProfileData
ALLOWED_UPDATES ==
    {"photoUrl", "about", "skills", "gender", "age", "firstName", "lastName"}

\* slip: the keys of the body are not checked
IsUpdateAllowed_NoCheck(updateData) == TRUE

\* Object.keys(updateData).every(update => ALLOWED_UPDATES.includes(update))
IsUpdateAllowed(updateData) == DOMAIN updateData \subseteq ALLOWED_UPDATES

\* the keys a client puts in the body of an edit
BodyKeys == {"firstName", "emailID"}

\* the bodies of an edit: any of the keys, each with any value
EditBodies == UNION {[K -> FieldValues] : K \in SUBSET BodyKeys}

\* runValidators: the validator of a path of the update rejects its value
SchemaRejects(updateData) ==
    \E f \in DOMAIN updateData : f \in ValidatedFields /\ ~updateData[f].ok

\* the document after {$set: updateData}
ApplyUpdate(doc, updateData) ==
    [emailID |-> IF "emailID" \in DOMAIN updateData
                 THEN updateData["emailID"] ELSE doc.emailID,
     password |-> IF "password" \in DOMAIN updateData
                  THEN updateData["password"] ELSE doc.password,
     profile |-> [f \in ProfileFields |->
                    IF f \in DOMAIN updateData THEN updateData[f] ELSE doc.profile[f]]]

\* the unique index {firstName: 1, lastName: 1} admits doc as the document of id
NameIndexAllows(id, doc) ==
    \A u \in users \ {id} :
        \/ docs[u].profile["firstName"] # doc.profile["firstName"]
        \/ docs[u].profile["lastName"] # doc.profile["lastName"]

\* the request arrives: userAuth, then validateUpdateProfileData (400 when a
\* key of the body is not allowed)
EditCall(s, actor, updateData) ==
    /\ Free(s)
    /\ req' = [req EXCEPT ![s] =
        IF ~userAuth(actor)
        THEN Done([Request("edit", actor, 0, "none") EXCEPT !.body = updateData],
                  "Unauthorized")
        ELSE IF ~IsUpdateAllowed(updateData)
        THEN Done([Request("edit", actor, 0, "none") EXCEPT !.body = updateData],
                  "InvalidUpdates")
        ELSE [Request("edit", actor, 0, "none")
                EXCEPT !.body = updateData, !.pc = "edit_update"]]
    /\ UNCHANGED <<users, docs, nextUser, records, nextId>>

\* await User.updateOne({_id: userId}, updateData, {runValidators: true}): a
\* validator or the unique index refuses the update (the catch answers 400),
\* else the paths of the body are set on the document with that _id, if any
EditUpdate(s) ==
    /\ req[s].pc = "edit_update"
    /\ IF \/ SchemaRejects(req[s].body)
          \/ /\ req[s].actor \in users
             /\ ~NameIndexAllows(req[s].actor, ApplyUpdate(UserDoc(req[s].actor), req[s].body))
       THEN /\ req' = [req EXCEPT ![s] = Done(req[s], "UpdateError")]
            /\ UNCHANGED docs
       ELSE /\ docs' = [u \in DOMAIN docs |->
                          IF u = req[s].actor THEN ApplyUpdate(docs[u], req[s].body)
                          ELSE docs[u]]
            /\ req' = [req EXCEPT ![s] = Done(req[s], "ProfileUpdated")]
    /\ UNCHANGED <<users, nextUser, records, nextId>>

\* ---- PUT /profile/updatePassword ----
\* the bodies of a password change
PasswordBodies ==
    {[oldPassword |-> o, newPassword |-> n] : o \in PlainPasswords, n \in PlainPasswords}

\* the request arrives: userAuth sets req.user to the document it found; the
\* handler runs up to bcrypt.compare
UpdatePasswordCall(s, actor, body) ==
    /\ Free(s)
    /\ req' = [req EXCEPT ![s] =
        IF ~userAuth(actor)
        THEN Done([Request("updatePassword", actor, 0, "none") EXCEPT !.body = body],
                  "Unauthorized")
        ELSE [Request("updatePassword", actor, 0, "none")
                EXCEPT !.body = body, !.pc = "password_compare",
                       !.locals.user = UserDoc(actor)]]
    /\ UNCHANGED <<users, docs, nextUser, records, nextId>>

\* await bcrypt.compare(oldPassword, user.password) (401), then
\* validatePassword of newPassword (400); the handler runs up to bcrypt.hash
UpdatePasswordCompare(s) ==
    /\ req[s].pc = "password_compare"
    /\ req' = [req EXCEPT ![s] =
        IF ~Compare(req[s].body.oldPassword, req[s].locals.user.password)
        THEN Done(req[s], "OldPasswordIncorrect")
        ELSE IF ~req[s].body.newPassword.strong
        THEN Done(req[s], "WeakPassword")
        ELSE [req[s] EXCEPT !.pc = "password_hash"]]
    /\ UNCHANGED <<users, docs, nextUser, records, nextId>>

\* await bcrypt.hash(newPassword, 10); user.password = hashedPassword changes
\* req.user only; the handler runs up to user.updateOne
UpdatePasswordHash(s) ==
    /\ req[s].pc = "password_hash"
    /\ req' = [req EXCEPT ![s] =
        [req[s] EXCEPT !.pc = "password_update",
                       !.locals.user.password = Hash(req[s].body.newPassword)]]
    /\ UNCHANGED <<users, docs, nextUser, records, nextId>>

\* await user.updateOne({_id: user._id}, {password: user.password},
\* {runValidators: true}) is called on the document, not on the model:
\* Document.updateOne(update, options) takes its first argument as the update
\* and its second as the options, so the update is {_id: user._id} and the
\* hash is an option nobody reads; the assignment user.password = hash
\* changes req.user only.  The stored document stays as it is.  The call
\* resolves (200), or throws on a mongoose that takes the third argument for
\* a callback (the catch answers 500).
UpdatePasswordUpdate(s) ==
    /\ req[s].pc = "password_update"
    /\ \E res \in {"PasswordUpdated", "ServerError"} :
          req' = [req EXCEPT ![s] = Done(req[s], res)]
    /\ UNCHANGED <<users, docs, nextUser, records, nextId>>

\* ---- POST /auth/login ----
\* the bodies of a login
LoginBodies ==
    {[emailID |-> e, password |-> p] : e \in TokenUsers, p \in PlainPasswords}

\* User.findOne({emailID})
FindByEmail(emailID) == {u \in users : docs[u].emailID = emailID}

\* the route has no userAuth.  await User.findOne({emailID}): 404 when no user
\* has the address, else the handler holds the document found and runs up to
\* bcrypt.compare
LoginCall(s, body) ==
    /\ Free(s)
    /\ IF FindByEmail(body.emailID) = {}
       THEN req' = [req EXCEPT ![s] =
                Done([Request("login", 0, 0, "none") EXCEPT !.body = body], "UserNotFound")]
       ELSE \E u \in FindByEmail(body.emailID) :
                req' = [req EXCEPT ![s] =
                    [Request("login", 0, 0, "none")
                        EXCEPT !.body = body, !.pc = "login_compare",
                               !.locals.user = docs[u]]]
    /\ UNCHANGED <<users, docs, nextUser, records, nextId>>

\* await bcrypt.compare(password, user.password) on the document found: 401,
\* or the token is signed and the handler answers 200
LoginCompare(s) ==
    /\ req[s].pc = "login_compare"
    /\ req' = [req EXCEPT ![s] =
        IF ~Compare(req[s].body.password, req[s].locals.user.password)
        THEN Done(req[s], "InvalidPassword")
        ELSE Done(req[s], "LoggedIn")]
    /\ UNCHANGED <<users, docs, nextUser, records, nextId>>

\* ---- scheduling ----
\* an awaited database call of the request on slot s completes and the handler
\* runs on to its next await or to its response
Step(s) ==
    \/ SendFindTo(s)
    \/ SendFindReverse(s)
    \/ SendFindExisting(s)
    \/ SendSave(s)
    \/ ReviewFindReq(s)
    \/ ReviewFindFrom(s)
    \/ ReviewSave(s)
    \/ RemoveFindConn(s)
    \/ RemoveDelete(s)
    \/ DeleteAccountDelete(s)

\* res.json(...) has been called for the request on slot s: the response leaves
\* and the slot is free again.  This ends the synchronous code that follows the
\* last await, so it happens before any other callback runs.
Respond(s) ==
    /\ req[s].pc = "done"
    /\ req' = [req EXCEPT ![s] = Idle]
    /\ UNCHANGED <<users, docs, nextUser, records, nextId>>

\* no handler is between its last await and the end of its function
NoneResponding == \A s \in Slots : req[s].pc # "done"

\* requests are served concurrently: a request may arrive on any free slot and
\* any request in flight may take its next step.  Ids in requests are
\* well-formed ObjectIds that a signup drew (stored, deleted or never stored).
\* The read routes are served concurrently in NextOverlap.
Next ==
    \/ \E s \in Slots : Respond(s)
    \/ \E saved \in BOOLEAN : NoneResponding /\ Signup(saved)
    \/ \E s \in Slots, a \in TokenUsers, t \in TokenUsers, st \in Statuses :
          NoneResponding /\ SendCall(s, a, t, st)
    \/ \E s \in Slots, a \in TokenUsers, f \in TokenUsers, st \in Statuses :
          NoneResponding /\ ReviewCall(s, a, f, st)
    \/ \E s \in Slots, a \in TokenUsers, u \in TokenUsers :
          NoneResponding /\ RemoveCall(s, a, u)
    \/ \E s \in Slots, a \in TokenUsers : NoneResponding /\ DeleteAccountCall(s, a)
    \/ \E s \in Slots : NoneResponding /\ SendFindTo(s)
    \/ \E s \in Slots : NoneResponding /\ SendFindReverse(s)
    \/ \E s \in Slots : NoneResponding /\ SendFindExisting(s)
    \/ \E s \in Slots : NoneResponding /\ SendSave(s)
    \/ \E s \in Slots : NoneResponding /\ ReviewFindReq(s)
    \/ \E s \in Slots : NoneResponding /\ ReviewFindFrom(s)
    \/ \E s \in Slots : NoneResponding /\ ReviewSave(s)
    \/ \E s \in Slots : NoneResponding /\ RemoveFindConn(s)
    \/ \E s \in Slots : NoneResponding /\ RemoveDelete(s)
    \/ \E s \in Slots : NoneResponding /\ DeleteAccountDelete(s)

Spec == Init /\ [][Next]_vars

\* no other request is in flight while the one on slot s runs
Alone(s) == \A o \in Slots \ {s} : Free(o)

\* requests are served one after the other: a request arrives and runs only
\* while no other is in flight
NextSeq ==
    \/ \E s \in Slots : Respond(s)
    \/ \E saved \in BOOLEAN : NoneResponding /\ Signup(saved)
    \/ \E s \in Slots, a \in TokenUsers, t \in TokenUsers, st \in Statuses :
          Alone(s) /\ SendCall(s, a, t, st)
    \/ \E s \in Slots, a \in TokenUsers, f \in TokenUsers, st \in Statuses :
          Alone(s) /\ ReviewCall(s, a, f, st)
    \/ \E s \in Slots, a \in TokenUsers, u \in TokenUsers :
          Alone(s) /\ RemoveCall(s, a, u)
    \/ \E s \in Slots, a \in TokenUsers : Alone(s) /\ DeleteAccountCall(s, a)
    \/ \E s \in Slots : Alone(s) /\ SendFindTo(s)
    \/ \E s \in Slots : Alone(s) /\ SendFindReverse(s)
    \/ \E s \in Slots : Alone(s) /\ SendFindExisting(s)
    \/ \E s \in Slots : Alone(s) /\ SendSave(s)
    \/ \E s \in Slots : Alone(s) /\ ReviewFindReq(s)
    \/ \E s \in Slots : Alone(s) /\ ReviewFindFrom(s)
    \/ \E s \in Slots : Alone(s) /\ ReviewSave(s)
    \/ \E s \in Slots : Alone(s) /\ RemoveFindConn(s)
    \/ \E s \in Slots : Alone(s) /\ RemoveDelete(s)
    \/ \E s \in Slots : Alone(s) /\ DeleteAccountDelete(s)
    \/ \E s \in Slots, a \in TokenUsers : Alone(s) /\ GetRequestsCall(s, a)
    \/ \E s \in Slots : Alone(s) /\ GetRequestsFind(s)
    \/ \E s \in Slots : Alone(s) /\ GetRequestsPopulate(s)
    \/ \E s \in Slots, a \in TokenUsers : Alone(s) /\ GetConnectionsCall(s, a)
    \/ \E s \in Slots : Alone(s) /\ GetConnectionsFind(s)
    \/ \E s \in Slots : Alone(s) /\ GetConnectionsPopulateFrom(s)
    \/ \E s \in Slots : Alone(s) /\ GetConnectionsPopulateTo(s)
    \/ \E s \in Slots, a \in TokenUsers, p \in QueryValues(MaxPage),
          l \in QueryValues(MaxLimit) :
              Alone(s) /\ GetFeedCall(s, a, p, l)
    \/ \E s \in Slots : Alone(s) /\ GetFeedFindRequests(s)
    \/ \E s \in Slots : Alone(s) /\ GetFeedCount(s)
    \/ \E s \in Slots : Alone(s) /\ GetFeedFindUsers(s)
    \/ \E s \in Slots, a \in TokenUsers : Alone(s) /\ GetProfile(s, a)
    \/ \E s \in Slots, a \in TokenUsers, b \in EditBodies : Alone(s) /\ EditCall(s, a, b)
    \/ \E s \in Slots : Alone(s) /\ EditUpdate(s)
    \/ \E s \in Slots, a \in TokenUsers, b \in PasswordBodies :
          Alone(s) /\ UpdatePasswordCall(s, a, b)
    \/ \E s \in Slots : Alone(s) /\ UpdatePasswordCompare(s)
    \/ \E s \in Slots : Alone(s) /\ UpdatePasswordHash(s)
    \/ \E s \in Slots : Alone(s) /\ UpdatePasswordUpdate(s)
    \/ \E s \in Slots, b \in LoginBodies : Alone(s) /\ LoginCall(s, b)
    \/ \E s \in Slots : Alone(s) /\ LoginCompare(s)

SpecSeq == Init /\ [][NextSeq]_vars

\* ---- the feed over a snapshot ----
FeedUserIds == 1..FeedUsers

\* the collections the requests of FeedUserIds can have left behind with n
\* inserts: no self-request, one document per ordered pair, _ids 1..n in
\* order of insertion, any status
RECURSIVE Snapshots(_)
Snapshots(n) ==
    IF n = 0 THEN {{}}
    ELSE Snapshots(n - 1) \cup
         {R \cup {[id |-> n, from |-> f, to |-> t, status |-> st]} :
            R \in {S \in Snapshots(n - 1) : Cardinality(S) = n - 1},
            f \in FeedUserIds, t \in FeedUserIds, st \in Statuses}

\* the store holds a snapshot: FeedUsers accounts were signed up, some were
\* deleted since, and at most MaxFeedRecords requests are stored
InitFeed ==
    /\ users \in SUBSET FeedUserIds
    /\ docs = [u \in users |-> SignupDoc(u)]
    /\ nextUser = FeedUsers + 1
    /\ records \in {R \in Snapshots(MaxFeedRecords) :
                      \A r \in R : /\ r.from # r.to
                                   /\ \A q \in R : (q.from = r.from /\ q.to = r.to) => q = r}
    /\ nextId = Cardinality(records) + 1
    /\ req = [s \in Slots |-> Idle]

\* no request is in flight on another slot: each is free or holds a response
OneInFlight(s) == \A o \in Slots \ {s} : req[o].pc \in {"idle", "done"}

\* only the feed is read and nothing is written: the store stays as it is.  A
\* client walks the pages one request at a time; a response stays on its slot
\* until the client has taken it, so the pages of one walk can be held side by
\* side.
NextFeed ==
    \/ \E s \in Slots : Respond(s)
    \/ \E s \in Slots, a \in TokenUsers, p \in QueryValues(MaxPage),
          l \in QueryValues(MaxLimit) : OneInFlight(s) /\ GetFeedCall(s, a, p, l)
    \/ \E s \in Slots : GetFeedFindRequests(s)
    \/ \E s \in Slots : GetFeedCount(s)
    \/ \E s \in Slots : GetFeedFindUsers(s)

SpecFeed == InitFeed /\ [][NextFeed]_vars

\* the request is served on the first slot
First(s) == Alone(s) /\ \A o \in Slots : s <= o

\* one write request over a snapshot: the request is served alone, from its
\* arrival to its response, on a store that already holds the accounts and
\* requests of InitFeed
NextStore ==
    \/ \E s \in Slots, a \in TokenUsers, t \in TokenUsers, st \in Statuses :
          First(s) /\ SendCall(s, a, t, st)
    \/ \E s \in Slots, a \in TokenUsers, f \in TokenUsers, st \in Statuses :
          First(s) /\ ReviewCall(s, a, f, st)
    \/ \E s \in Slots, a \in TokenUsers, u \in TokenUsers :
          First(s) /\ RemoveCall(s, a, u)
    \/ \E s \in Slots, a \in TokenUsers : First(s) /\ DeleteAccountCall(s, a)
    \/ \E s \in Slots : First(s) /\ SendFindTo(s)
    \/ \E s \in Slots : First(s) /\ SendFindReverse(s)
    \/ \E s \in Slots : First(s) /\ SendFindExisting(s)
    \/ \E s \in Slots : First(s) /\ SendSave(s)
    \/ \E s \in Slots : First(s) /\ ReviewFindReq(s)
    \/ \E s \in Slots : First(s) /\ ReviewFindFrom(s)
    \/ \E s \in Slots : First(s) /\ ReviewSave(s)
    \/ \E s \in Slots : First(s) /\ RemoveFindConn(s)
    \/ \E s \in Slots : First(s) /\ RemoveDelete(s)
    \/ \E s \in Slots : First(s) /\ DeleteAccountDelete(s)

SpecStore == InitFeed /\ [][NextStore]_vars

\* the request on slot s writes to the store
Writes(s) == req[s].op \in {"send", "review", "remove", "deleteAccount"}

\* no write request is in flight on another slot
OneWriter(s) == NoneResponding /\ \A o \in Slots \ {s} : ~Writes(o)

\* reads overlap writes: the requests that write to the store are served one
\* after the other, while a read request may arrive at any time and each of
\* its queries may run before or after any step of the write in flight, of a
\* signup or of another read
NextOverlap ==
    \/ \E s \in Slots : Respond(s)
    \/ \E saved \in BOOLEAN : NoneResponding /\ Signup(saved)
    \/ \E s \in Slots, a \in TokenUsers, t \in TokenUsers, st \in Statuses :
          OneWriter(s) /\ SendCall(s, a, t, st)
    \/ \E s \in Slots, a \in TokenUsers, f \in TokenUsers, st \in Statuses :
          OneWriter(s) /\ ReviewCall(s, a, f, st)
    \/ \E s \in Slots, a \in TokenUsers, u \in TokenUsers :
          OneWriter(s) /\ RemoveCall(s, a, u)
    \/ \E s \in Slots, a \in TokenUsers : OneWriter(s) /\ DeleteAccountCall(s, a)
    \/ \E s \in Slots : NoneResponding /\ SendFindTo(s)
    \/ \E s \in Slots : NoneResponding /\ SendFindReverse(s)
    \/ \E s \in Slots : NoneResponding /\ SendFindExisting(s)
    \/ \E s \in Slots : NoneResponding /\ SendSave(s)
    \/ \E s \in Slots : NoneResponding /\ ReviewFindReq(s)
    \/ \E s \in Slots : NoneResponding /\ ReviewFindFrom(s)
    \/ \E s \in Slots : NoneResponding /\ ReviewSave(s)
    \/ \E s \in Slots : NoneResponding /\ RemoveFindConn(s)
    \/ \E s \in Slots : NoneResponding /\ RemoveDelete(s)
    \/ \E s \in Slots : NoneResponding /\ DeleteAccountDelete(s)
    \/ \E s \in Slots, a \in TokenUsers : NoneResponding /\ GetRequestsCall(s, a)
    \/ \E s \in Slots : NoneResponding /\ GetRequestsFind(s)
    \/ \E s \in Slots : NoneResponding /\ GetRequestsPopulate(s)
    \/ \E s \in Slots, a \in TokenUsers : NoneResponding /\ GetConnectionsCall(s, a)
    \/ \E s \in Slots : NoneResponding /\ GetConnectionsFind(s)
    \/ \E s \in Slots : NoneResponding /\ GetConnectionsPopulateFrom(s)
    \/ \E s \in Slots : NoneResponding /\ GetConnectionsPopulateTo(s)
    \/ \E s \in Slots, a \in TokenUsers, p \in QueryValues(MaxPage),
          l \in QueryValues(MaxLimit) :
              NoneResponding /\ GetFeedCall(s, a, p, l)
    \/ \E s \in Slots : NoneResponding /\ GetFeedFindRequests(s)
    \/ \E s \in Slots : NoneResponding /\ GetFeedCount(s)
    \/ \E s \in Slots : NoneResponding /\ GetFeedFindUsers(s)

SpecOverlap == Init /\ [][NextOverlap]_vars

\* the connection routes and the account deletion served concurrently, as in
\* Next, together with the incoming-requests route: a read of the incoming
\* requests overlaps the writes, and the writes overlap each other.
NextIncoming ==
    \/ \E s \in Slots : Respond(s)
    \/ \E saved \in BOOLEAN : NoneResponding /\ Signup(saved)
    \/ \E s \in Slots, a \in TokenUsers, t \in TokenUsers, st \in Statuses :
          NoneResponding /\ SendCall(s, a, t, st)
    \/ \E s \in Slots, a \in TokenUsers, f \in TokenUsers, st \in Statuses :
          NoneResponding /\ ReviewCall(s, a, f, st)
    \/ \E s \in Slots, a \in TokenUsers, u \in TokenUsers :
          NoneResponding /\ RemoveCall(s, a, u)
    \/ \E s \in Slots, a \in TokenUsers : NoneResponding /\ DeleteAccountCall(s, a)
    \/ \E s \in Slots : NoneResponding /\ SendFindTo(s)
    \/ \E s \in Slots : NoneResponding /\ SendFindReverse(s)
    \/ \E s \in Slots : NoneResponding /\ SendFindExisting(s)
    \/ \E s \in Slots : NoneResponding /\ SendSave(s)
    \/ \E s \in Slots : NoneResponding /\ ReviewFindReq(s)
    \/ \E s \in Slots : NoneResponding /\ ReviewFindFrom(s)
    \/ \E s \in Slots : NoneResponding /\ ReviewSave(s)
    \/ \E s \in Slots : NoneResponding /\ RemoveFindConn(s)
    \/ \E s \in Slots : NoneResponding /\ RemoveDelete(s)
    \/ \E s \in Slots : NoneResponding /\ DeleteAccountDelete(s)
    \/ \E s \in Slots, a \in TokenUsers : NoneResponding /\ GetRequestsCall(s, a)
    \/ \E s \in Slots : NoneResponding /\ GetRequestsFind(s)
    \/ \E s \in Slots : NoneResponding /\ GetRequestsPopulate(s)

SpecIncoming == Init /\ [][NextIncoming]_vars

\* the account routes are served concurrently: signup, login, the profile
\* routes and account deletion; a request may arrive on any free slot and any
\* request in flight may take its next step
NextProfile ==
    \/ \E s \in Slots : Respond(s)
    \/ \E saved \in BOOLEAN : NoneResponding /\ Signup(saved)
    \/ \E s \in Slots, a \in TokenUsers : NoneResponding /\ DeleteAccountCall(s, a)
    \/ \E s \in Slots : NoneResponding /\ DeleteAccountDelete(s)
    \/ \E s \in Slots, a \in TokenUsers : NoneResponding /\ GetProfile(s, a)
    \/ \E s \in Slots, a \in TokenUsers, b \in EditBodies :
          NoneResponding /\ EditCall(s, a, b)
    \/ \E s \in Slots : NoneResponding /\ EditUpdate(s)
    \/ \E s \in Slots, a \in TokenUsers, b \in PasswordBodies :
          NoneResponding /\ UpdatePasswordCall(s, a, b)
    \/ \E s \in Slots : NoneResponding /\ UpdatePasswordCompare(s)
    \/ \E s \in Slots : NoneResponding /\ UpdatePasswordHash(s)
    \/ \E s \in Slots : NoneResponding /\ UpdatePasswordUpdate(s)
    \/ \E s \in Slots, b \in LoginBodies : NoneResponding /\ LoginCall(s, b)
    \/ \E s \in Slots : NoneResponding /\ LoginCompare(s)

SpecProfile == Init /\ [][NextProfile]_vars

\* the request is served on the last slot
Last(s) == \A o \in Slots : o <= s

\* the connections of a user are read over a snapshot while accounts are
\* deleted: one connections request is served on the first slot and one
\* account deletion on the last, each step of the one before or after any
\* step of the other
NextConnections ==
    \/ \E s \in Slots, a \in TokenUsers :
          (\A o \in Slots : s <= o) /\ GetConnectionsCall(s, a)
    \/ \E s \in Slots : GetConnectionsFind(s)
    \/ \E s \in Slots : GetConnectionsPopulateFrom(s)
    \/ \E s \in Slots : GetConnectionsPopulateTo(s)
    \/ \E s \in Slots, a \in TokenUsers : Last(s) /\ DeleteAccountCall(s, a)
    \/ \E s \in Slots : DeleteAccountDelete(s)

SpecConnections == InitFeed /\ [][NextConnections]_vars

\* the event loop runs every pending callback: a request in flight gets its
\* next database result and its response.  Nothing obliges a client to send a
\* new request.
Fairness ==
    /\ WF_vars(\E s \in Slots : Respond(s))
    /\ SF_vars(\E s \in Slots : NoneResponding /\ Step(s))

FairSpec == Init /\ [][Next]_vars /\ Fairness

TypeOK ==
    /\ users \subseteq UserIds
    /\ DOMAIN docs = users
    /\ nextUser \in 1..(MaxUsers + 1)
    /\ nextId \in 1..(MaxRecords + 1)
    /\ \A r \in records : r.id \in RecordIds /\ r.status \in Statuses

\* ---- helpers of the properties ----
\* the users the feed of userId is drawn from when its queries read the store
\* as it is now
FeedCandidates(userId) == Matching(ExcludedUserIds(userId))

\* the request on slot s gets its response in this step
Completes(s) == req[s].pc # "done" /\ req'[s].pc = "done"

\* a record from f to t is stored
Linked(f, t) == FindByPair(f, t) # {}

\* ---- C1 ----
\* C1: in every behaviour, overlapping reviews included, the status of a stored
\* record changes only from interested to accepted or from interested to
\* rejected; an ignored, accepted or rejected record never changes status.
C1_StatusOnlyLeavesInterested ==
    [][\A r \in records : \A q \in records' :
          (q.id = r.id /\ q.status # r.status)
              => (r.status = "interested" /\ q.status \in {"accepted", "rejected"})]_vars

\* ---- C2 ----
\* the outcome the send contract prescribes: its first failing check
SendContract(actor, toUserId, status) ==
    IF actor \notin users THEN "Unauthorized"
    ELSE IF status \notin {"interested", "ignored"} THEN "InvalidStatus"
    ELSE IF toUserId \notin users THEN "UserNotFound"
    ELSE IF toUserId = actor THEN "SelfRequestForbidden"
    ELSE IF Linked(toUserId, actor) THEN "ReverseRequestExists"
    ELSE IF Linked(actor, toUserId) THEN "DuplicateRelationship"
    ELSE "Created"

\* C2: a send by an authenticated user that runs without overlap answers the
\* first failing check in the order InvalidStatus, UserNotFound,
\* SelfRequestForbidden, ReverseRequestExists, DuplicateRelationship (judged on
\* the store the call ran against), and no step of a failing send changes the
\* set of records.
C2_SendFirstFailingCheck ==
    [][\A s \in Slots :
        /\ (Completes(s) /\ req'[s].op = "send" /\ req'[s].res # "Unauthorized")
              => req'[s].res = SendContract(req'[s].actor, req'[s].target, req'[s].status)
        /\ (req'[s] # req[s] /\ req'[s].op = "send" /\ req'[s].res # "Created")
              => records' = records]_vars

\* a send passed the four earlier checks and was refused by the last one: the
\* actor already has a record towards the target
C2_Witness ==
    \E s \in Slots :
        /\ req[s].pc = "done" /\ req[s].op = "send"
        /\ req[s].res = "DuplicateRelationship"
        /\ Linked(req[s].actor, req[s].target)

\* ---- C4 ----
\* C4: in every reachable state, also after overlapping sends that all passed
\* their lookups before any insert, each ordered pair (fromUser, toUser) has at
\* most one record.
C4_OneRecordPerOrderedPair ==
    \A r \in records : \A q \in records :
        (r.from = q.from /\ r.to = q.to) => r = q

\* an insert was refused by the unique index: the send had passed its
\* duplicate lookup and the pair had a record by the time it saved
C4_Witness ==
    \E s \in Slots :
        /\ req[s].pc = "done" /\ req[s].op = "send" /\ req[s].res = "ServerError"
        /\ Linked(req[s].actor, req[s].target)

\* ---- C5 ----
\* C5: when requests do not overlap, no reachable state holds both a record
\* A -> B and a record B -> A, whatever the status of either.
C5_NoOppositeRecords ==
    \A r \in records : \A q \in records : ~(r.from = q.to /\ r.to = q.from)

\* a send was refused because the opposite record is stored
C5_Witness ==
    \E s \in Slots :
        /\ req[s].pc = "done" /\ req[s].op = "send"
        /\ req[s].res = "ReverseRequestExists"
        /\ Linked(req[s].target, req[s].actor)

\* ---- C10 ----
\* C10: every stored record has fromUser different from toUser, after any
\* sequence of send, review and remove calls.
C10_NoSelfRecord == \A r \in records : r.from # r.to

\* a send to oneself was refused while other records are stored
C10_Witness ==
    \E s \in Slots :
        /\ req[s].pc = "done" /\ req[s].op = "send"
        /\ req[s].res = "SelfRequestForbidden"
        /\ req[s].actor = req[s].target
        /\ records # {}

\* ---- C3 ----
\* the failure kind of a review response: the answer "Only interested
\* connection requests can be reviewed" is of the AlreadyReviewed kind
Kind(res) == IF res = "OnlyInterested" THEN "AlreadyReviewed" ELSE res

\* the outcome the review contract prescribes: its first failing check
ReviewContract(reviewer, fromUserId, decision) ==
    IF decision \notin {"accepted", "rejected"} THEN "InvalidStatus"
    ELSE IF ~Linked(fromUserId, reviewer) THEN "RequestNotFound"
    ELSE IF \E r \in FindByPair(fromUserId, reviewer) : r.status # "interested"
         THEN "AlreadyReviewed"
    ELSE IF fromUserId \notin users THEN "UserNotFound"
    ELSE IF fromUserId = reviewer THEN "SelfReviewForbidden"
    ELSE "Reviewed"

\* C3 as stated: a review that runs without overlap answers the first failing
\* check in the order InvalidStatus, RequestNotFound, AlreadyReviewed (status
\* not interested), UserNotFound, SelfReviewForbidden, so an ignored record
\* answers AlreadyReviewed even when its sender is gone; a failing review
\* leaves the records unchanged.
C3_ReviewContractOrder ==
    [][\A s \in Slots :
        /\ (Completes(s) /\ req'[s].op = "review" /\ req'[s].res # "Unauthorized")
              => Kind(req'[s].res)
                   = ReviewContract(req'[s].actor, req'[s].target, req'[s].status)
        /\ (req'[s] # req[s] /\ req'[s].op = "review" /\ req'[s].res # "Reviewed")
              => records' = records]_vars

\* the order in which the review route tests: the sender's existence and the
\* self-review test come before the test for an ignored record
ReviewRouteOrder(reviewer, fromUserId, decision) ==
    IF decision \notin {"accepted", "rejected"} THEN "InvalidStatus"
    ELSE IF ~Linked(fromUserId, reviewer) THEN "RequestNotFound"
    ELSE IF \E r \in FindByPair(fromUserId, reviewer) : r.status \in {"accepted", "rejected"}
         THEN "AlreadyReviewed"
    ELSE IF fromUserId \notin users THEN "UserNotFound"
    ELSE IF fromUserId = reviewer THEN "SelfReviewForbidden"
    ELSE IF \E r \in FindByPair(fromUserId, reviewer) : r.status # "interested"
         THEN "OnlyInterested"
    ELSE "Reviewed"

\* C3 amended: a review that runs without overlap answers the first failing
\* check in the order InvalidStatus, RequestNotFound, AlreadyReviewed (status
\* accepted or rejected), UserNotFound, SelfReviewForbidden, and last the
\* refusal of an ignored record; an ignored record whose sender is gone answers
\* UserNotFound; a failing review leaves the records unchanged.
C3_ReviewRouteOrder ==
    [][\A s \in Slots :
        /\ (Completes(s) /\ req'[s].op = "review" /\ req'[s].res # "Unauthorized")
              => req'[s].res
                   = ReviewRouteOrder(req'[s].actor, req'[s].target, req'[s].status)
        /\ (req'[s] # req[s] /\ req'[s].op = "review" /\ req'[s].res # "Reviewed")
              => records' = records]_vars

\* the review of an ignored record whose sender deleted their account
C3_Witness ==
    \E s \in Slots :
        /\ req[s].pc = "done" /\ req[s].op = "review" /\ req[s].res = "UserNotFound"
        /\ req[s].target \notin users
        /\ \E r \in FindByPair(req[s].target, req[s].actor) : r.status = "ignored"

\* ---- C7 ----
\* C7: reviews by the same reviewer of the same request, run one after the
\* other with decisions from {accepted, rejected}: the review of an interested
\* request (sender present) succeeds and sets the status to its decision; the
\* review of a request that is already accepted or rejected answers
\* AlreadyReviewed and leaves the record as the first review set it.
C7_SecondReviewRefused ==
    [][\A s \in Slots :
        (Completes(s) /\ req'[s].op = "review" /\ req'[s].res # "Unauthorized"
            /\ req'[s].status \in ReviewStatuses)
        => \A r \in FindByPair(req'[s].target, req'[s].actor) :
             /\ (r.status = "interested" /\ req'[s].target \in users)
                  => /\ req'[s].res = "Reviewed"
                     /\ records' = (records \ {r})
                                     \cup {[r EXCEPT !.status = req'[s].status]}
             /\ (r.status \in {"accepted", "rejected"})
                  => /\ req'[s].res = "AlreadyReviewed"
                     /\ records' = records]_vars

\* a second review with the other decision was refused and the record keeps
\* the status the first review gave it
C7_Witness ==
    \E s \in Slots :
        /\ req[s].pc = "done" /\ req[s].op = "review" /\ req[s].res = "AlreadyReviewed"
        /\ \E r \in FindByPair(req[s].target, req[s].actor) :
              r.status \in {"accepted", "rejected"} /\ r.status # req[s].status

\* ---- C8 ----
\* a record f -> t that was created as interested (it is interested, accepted
\* or rejected now)
LinkedAsInterested(f, t) == \E r \in FindByPair(f, t) : r.status # "ignored"

\* C8 as stated: while a record A -> B created as interested is stored, every
\* send A -> B (valid status) answers DuplicateRelationship and every send
\* B -> A answers ReverseRequestExists, and neither changes the store.
C8_BlockedByKind ==
    [][\A s \in Slots :
        (Completes(s) /\ req'[s].op = "send" /\ req'[s].res # "Unauthorized"
            /\ req'[s].status \in SendStatuses)
        => /\ LinkedAsInterested(req'[s].actor, req'[s].target)
                => (req'[s].res = "DuplicateRelationship" /\ records' = records)
           /\ LinkedAsInterested(req'[s].target, req'[s].actor)
                => (req'[s].res = "ReverseRequestExists" /\ records' = records)]_vars

\* C8 amended: while a record A -> B created as interested is stored, every
\* send A -> B and every send B -> A fails and leaves the store unchanged; the
\* failure is that of the first check that fails, in the order of the route:
\* InvalidStatus, UserNotFound, ReverseRequestExists, DuplicateRelationship.
\* A send B -> A is refused by the reverse lookup; a send A -> B is refused by
\* the duplicate lookup, unless a record B -> A is stored too (overlapping
\* sends left both), and then by the reverse lookup, which comes first.
C8_BlockedWhileRecordExists ==
    [][\A s \in Slots :
        (Completes(s) /\ req'[s].op = "send" /\ req'[s].res # "Unauthorized")
        => /\ LinkedAsInterested(req'[s].actor, req'[s].target)
                => /\ records' = records
                   /\ req'[s].res =
                        IF req'[s].status \notin SendStatuses THEN "InvalidStatus"
                        ELSE IF req'[s].target \notin users THEN "UserNotFound"
                        ELSE IF Linked(req'[s].target, req'[s].actor)
                             THEN "ReverseRequestExists"
                        ELSE "DuplicateRelationship"
           /\ LinkedAsInterested(req'[s].target, req'[s].actor)
                => /\ records' = records
                   /\ req'[s].res =
                        IF req'[s].status \notin SendStatuses THEN "InvalidStatus"
                        ELSE IF req'[s].target \notin users THEN "UserNotFound"
                        ELSE "ReverseRequestExists"]_vars

\* with A -> B (created as interested) and B -> A both stored, a send A -> B
\* was refused by the reverse lookup
C8_Witness ==
    \E s \in Slots :
        /\ req[s].pc = "done" /\ req[s].op = "send"
        /\ req[s].res = "ReverseRequestExists"
        /\ LinkedAsInterested(req[s].actor, req[s].target)
        /\ Linked(req[s].target, req[s].actor)

\* ---- C9 ----
\* a rejected record f -> t is stored
LinkedRejected(f, t) == \E r \in FindByPair(f, t) : r.status = "rejected"

\* C9 as stated: while the record A -> B is rejected (A still has an
\* account), a send B -> A with a valid status succeeds and creates B -> A.
C9_OppositeAfterRejectedSucceeds ==
    [][\A s \in Slots :
        (Completes(s) /\ req'[s].op = "send" /\ req'[s].res # "Unauthorized"
            /\ req'[s].status \in SendStatuses /\ req'[s].target \in users
            /\ LinkedRejected(req'[s].target, req'[s].actor))
        => /\ req'[s].res = "Created"
           /\ \E r \in records' : r.from = req'[s].actor /\ r.to = req'[s].target]_vars

\* C9 amended: while the record A -> B is rejected (A still has an account),
\* a send B -> A with a valid status answers ReverseRequestExists and creates
\* nothing: a rejected record blocks the opposite direction like any other.
C9_OppositeAfterRejectedRefused ==
    [][\A s \in Slots :
        (Completes(s) /\ req'[s].op = "send" /\ req'[s].res # "Unauthorized"
            /\ req'[s].status \in SendStatuses /\ req'[s].target \in users
            /\ LinkedRejected(req'[s].target, req'[s].actor))
        => (req'[s].res = "ReverseRequestExists" /\ records' = records)]_vars

\* a send towards the sender of a rejected request was refused
C9_Witness ==
    \E s \in Slots :
        /\ req[s].pc = "done" /\ req[s].op = "send"
        /\ req[s].res = "ReverseRequestExists"
        /\ req[s].target \in users
        /\ LinkedRejected(req[s].target, req[s].actor)
        /\ ~Linked(req[s].actor, req[s].target)

\* ---- C6 ----
\* records in both directions between a and b are stored
Coexist(a, b) == Linked(a, b) /\ Linked(b, a)

\* C6 as stated: the coexistence of two opposite records is transient: from
\* every state where they coexist, a state where they no longer do follows.
C6_CoexistenceTransient ==
    \A a \in UserIds : \A b \in UserIds : Coexist(a, b) ~> ~Coexist(a, b)

\* C6 amended: the insert of a send that passed its reverse lookup succeeds
\* also when the opposite record has been stored meanwhile, so both records
\* then coexist; the coexistence is not transient: it ends only when a
\* removeConnection deletes one of the two records.
C6_CoexistUntilRemoved ==
    [][\A a \in UserIds : \A b \in UserIds :
        /\ \A s \in Slots :
              (req[s].pc = "send_save" /\ req'[s].pc = "done"
                  /\ req[s].actor = a /\ req[s].target = b
                  /\ Linked(b, a) /\ ~Linked(a, b))
              => (req'[s].res = "Created" /\ Coexist(a, b)')
        /\ (Coexist(a, b) /\ ~Coexist(a, b)')
              => \E s \in Slots : req[s].pc = "remove_delete" /\ req'[s].pc = "done"]_vars

\* two overlapping sends left an interested record in each direction
C6_Witness ==
    \E a \in UserIds : \E b \in UserIds :
        /\ a # b
        /\ \E r \in FindByPair(a, b) : r.status = "interested"
        /\ \E q \in FindByPair(b, a) : q.status = "interested"

\* ---- C15 ----
\* C15: a removeConnection(U, V) that runs without overlap succeeds exactly
\* when an accepted record between U and V (either direction) is stored, and
\* then deletes that record and nothing else; otherwise it answers
\* ConnectionNotFound and no step of it changes the records.
C15_RemoveOnlyAccepted ==
    [][\A s \in Slots :
        /\ (Completes(s) /\ req'[s].op = "remove" /\ req'[s].res # "Unauthorized")
              => LET acc == {r \in records :
                                /\ r.status = "accepted"
                                /\ \/ (r.from = req'[s].actor /\ r.to = req'[s].target)
                                   \/ (r.from = req'[s].target /\ r.to = req'[s].actor)}
                 IN IF acc # {}
                    THEN /\ req'[s].res = "ConnectionDeleted"
                         /\ \E r \in acc : records' = records \ {r}
                    ELSE /\ req'[s].res = "ConnectionNotFound"
                         /\ records' = records
        /\ (req'[s] # req[s] /\ req'[s].op = "remove"
                /\ req'[s].res # "ConnectionDeleted")
              => records' = records]_vars

\* a removeConnection was refused although a record between the two is
\* stored: that record is not accepted
C15_Witness ==
    \E s \in Slots :
        /\ req[s].pc = "done" /\ req[s].op = "remove"
        /\ req[s].res = "ConnectionNotFound"
        /\ \E r \in FindByPair(req[s].actor, req[s].target)
                      \cup FindByPair(req[s].target, req[s].actor) :
              r.status \in {"interested", "ignored", "rejected"}

\* ---- C20 ----
\* C20: when two sends for the same ordered pair both passed the duplicate
\* lookup, the one that saves second (the pair has a record by then) answers
\* DuplicateRelationship.
C20_LoserAnswersDuplicate ==
    [][\A s \in Slots :
        (req[s].pc = "send_save" /\ req'[s].pc = "done"
            /\ Linked(req[s].actor, req[s].target))
        => req'[s].res = "DuplicateRelationship"]_vars

\* ---- C11 ----
\* a record between u and v is stored, in either direction, with any status
Related(u, v) == Linked(u, v) \/ Linked(v, u)

\* C11: whatever page and limit are asked for, a feed response to U lists
\* neither U nor a user that has a record with U in either direction, whatever
\* the status of the record.
C11_FeedExcludesRelated ==
    \A s \in Slots :
        (req[s].pc = "done" /\ req[s].op = "feed")
            => /\ req[s].actor \notin req[s].out.feed
               /\ \A v \in req[s].out.feed : ~Related(req[s].actor, v)

\* a feed was served with a user on it while the caller has an accepted
\* request to one live user and a request received from another
C11_Witness ==
    \E s \in Slots :
        /\ req[s].pc = "done" /\ req[s].op = "feed" /\ req[s].out.feed # {}
        /\ \E r \in records : r.from = req[s].actor /\ r.to \in users
        /\ \E r \in records : r.to = req[s].actor /\ r.from \in users

\* ---- C13 ----
\* C13: for one caller and one limit over the same store, page 1 and page 2 of
\* a two-page feed share no user and together hold every candidate.
C13_PagesPartition ==
    \A s \in Slots : \A t \in Slots :
        (/\ req[s].pc = "done" /\ req[s].op = "feed" /\ req[s].res # "Unauthorized"
         /\ req[t].pc = "done" /\ req[t].op = "feed" /\ req[t].res # "Unauthorized"
         /\ req[s].actor = req[t].actor
         /\ req[s].out.limit = req[t].out.limit
         /\ req[s].out.totalPages = 2
         /\ req[s].out.page = 1 /\ req[t].out.page = 2)
        => /\ req[s].out.feed \cap req[t].out.feed = {}
           /\ req[s].out.feed \cup req[t].out.feed = FeedCandidates(req[s].actor)

\* ---- C14 ----
\* C14: every feed response carries total = number of candidates, totalPages =
\* ceil(total / limit) and hasNextPage = (page * limit < total), the response
\* for a page without items included.
C14_FeedMetadata ==
    \A s \in Slots :
        (req[s].pc = "done" /\ req[s].op = "feed" /\ req[s].res # "Unauthorized")
            => /\ req[s].out.total = Cardinality(FeedCandidates(req[s].actor))
               /\ req[s].out.totalPages * req[s].out.limit >= req[s].out.total
               /\ (req[s].out.totalPages - 1) * req[s].out.limit < req[s].out.total
               /\ req[s].out.hasNextPage =
                    (IF req[s].out.page * req[s].out.limit < req[s].out.total
                     THEN "true" ELSE "false")

\* ---- C12 ----
\* C12 as stated: once a record between U and V is stored, V is no candidate
\* of U's feed after any later step.
C12_ExcludedForever ==
    [][\A u \in UserIds : \A v \in UserIds :
          Related(u, v) => v \notin FeedCandidates(u)']_vars

\* C12: V is off U's feed while a record between them is stored, whatever
\* its status; a review never brings V back.  V becomes a candidate of U's
\* feed again only by the step of a removeConnection between the two that
\* deletes their record.
C12_ExcludedUntilRemoved ==
    [][/\ \A s \in Slots :
            (Completes(s) /\ req'[s].op = "feed")
                => \A v \in req'[s].out.feed : ~Related(req'[s].actor, v)
       /\ \A u \in UserIds : \A v \in UserIds :
            (Related(u, v) /\ v \in FeedCandidates(u)')
                => \E s \in Slots :
                      /\ Completes(s) /\ req'[s].op = "remove"
                      /\ req'[s].res = "ConnectionDeleted"
                      /\ {req'[s].actor, req'[s].target} = {u, v}]_vars

\* a removeConnection has just deleted the record of the two users and the
\* removed counterpart is a candidate of the caller's feed again
C12_Witness ==
    \E s \in Slots :
        /\ req[s].pc = "done" /\ req[s].op = "remove"
        /\ req[s].res = "ConnectionDeleted"
        /\ req[s].target \in FeedCandidates(req[s].actor)

\* ---- C16 ----
\* getConnections(u) answers a list that has v on it
Lists(u, v) ==
    /\ ~MapThrows(AcceptedRequests(u), users)
    /\ \E e \in Connections(u, AcceptedRequests(u), users, users) : e.user = v

\* C16 as stated: right after a successful removeConnection(U, V) neither
\* lists the other and a send between them, in either direction and with
\* either valid status, would create a record.
C16_FreshAfterRemove ==
    \A s \in Slots :
        (req[s].pc = "done" /\ req[s].op = "remove" /\ req[s].res = "ConnectionDeleted")
            => /\ ~Lists(req[s].actor, req[s].target)
               /\ ~Lists(req[s].target, req[s].actor)
               /\ \A st \in SendStatuses :
                    /\ SendContract(req[s].actor, req[s].target, st) = "Created"
                    /\ SendContract(req[s].target, req[s].actor, st) = "Created"

\* ---- C17 ----
\* C17: a connections response to U lists exactly the users that have an
\* accepted record with U in either direction, and the connections request of
\* an authenticated user always gets such a list.
C17_ListedIffAccepted ==
    \A s \in Slots :
        (req[s].pc = "done" /\ req[s].op = "connections" /\ req[s].res # "Unauthorized")
            => /\ req[s].res \in {"ConnectionsFetched", "NoConnections"}
               /\ {e.user : e \in req[s].out.list} =
                    {v \in TokenUsers : AcceptedBetween(req[s].actor, v) # {}}

\* ---- C18 ----
\* C18: an incoming-requests response to B lists exactly the stored records
\* whose recipient is B and whose status is interested; with none it is a
\* success response without a list.
C18_ListsPendingOnly ==
    \A s \in Slots :
        (req[s].pc = "done" /\ req[s].op = "requests" /\ req[s].res # "Unauthorized")
            => /\ req[s].res \in {"RequestsFetched", "NoRequests", "NoPendingRequests"}
               /\ {e.id : e \in req[s].out.list} =
                    {r.id : r \in {q \in records :
                                      q.to = req[s].actor /\ q.status = "interested"}}

\* the incoming requests were asked for while the only request received has
\* been reviewed: nothing is listed
C18_Witness ==
    \E s \in Slots :
        /\ req[s].pc = "done" /\ req[s].op = "requests"
        /\ req[s].res = "NoPendingRequests"
        /\ \E r \in records : r.to = req[s].actor /\ r.status \in {"accepted", "rejected"}

\* ---- C19 ----
\* C19: a read request (feed, incoming requests, connections) of an
\* authenticated user never gets the server-error response.
C19_ReadsNeverFail ==
    \A s \in Slots :
        (req[s].pc = "done" /\ req[s].op \in {"feed", "requests", "connections"}
            /\ req[s].res # "Unauthorized")
        => req[s].res # "ServerError"

\* ---- C21 ----
\* C21: a stored record disappears only in the step of a removeConnection
\* that answers success; sends, reviews, reads and account deletion delete no
\* record, so the step that deletes an account leaves every record in place.
C21_OnlyRemoveDeletes ==
    [][/\ \A r \in records :
            (\A q \in records' : q.id # r.id)
                => \E s \in Slots :
                      /\ Completes(s) /\ req'[s].op = "remove"
                      /\ req'[s].res = "ConnectionDeleted"
       /\ \A s \in Slots :
            (Completes(s) /\ req'[s].op = "deleteAccount")
                => records' = records]_vars

\* an account was deleted and a record that names it is still stored
C21_Witness ==
    \E s \in Slots :
        /\ req[s].pc = "done" /\ req[s].op = "deleteAccount"
        /\ req[s].res = "UserDeleted"
        /\ \E r \in records : r.from = req[s].actor \/ r.to = req[s].actor

\* ---- C22 ----
\* C22: a send of an authenticated user, served alone, that answers success
\* has added the one record (actor -> target, status) and changed no other
\* record and no user; and it answers success whenever the status is valid,
\* the target exists and is not the actor, and no record between the two is
\* stored in either direction.
C22_SendAddsOne ==
    [][\A s \in Slots :
        /\ (Completes(s) /\ req'[s].op = "send" /\ req'[s].res = "Created")
              => /\ \E q \in records' :
                      /\ q.from = req'[s].actor /\ q.to = req'[s].target
                      /\ q.status = req'[s].status
                      /\ q \notin records
                      /\ records' = records \cup {q}
                 /\ users' = users
        /\ (/\ Completes(s) /\ req'[s].op = "send" /\ req'[s].res # "Unauthorized"
            /\ req'[s].status \in {"interested", "ignored"}
            /\ req'[s].target \in users /\ req'[s].target # req'[s].actor
            /\ ~Related(req'[s].actor, req'[s].target))
              => req'[s].res = "Created"]_vars

\* a send succeeded on a store that holds another request of the actor, to a
\* third user
C22_Witness ==
    \E s \in Slots :
        /\ req[s].pc = "done" /\ req[s].op = "send" /\ req[s].res = "Created"
        /\ \E r \in records : r.from = req[s].actor /\ r.to # req[s].target

\* ---- C23 ----
\* C23: a review that answers success has set the status of the one record
\* (sender -> reviewer) to the decision and left every other record as it
\* was, creating and deleting none; no step changes fromUser or toUser of a
\* stored record.
C23_ReviewChangesOneStatus ==
    [][/\ \A s \in Slots :
            (Completes(s) /\ req'[s].op = "review" /\ req'[s].res = "Reviewed")
                => \E r \in records :
                      /\ r.from = req'[s].target /\ r.to = req'[s].actor
                      /\ records' = (records \ {r})
                                       \cup {[r EXCEPT !.status = req'[s].status]}
       /\ \A r \in records : \A q \in records' :
            q.id = r.id => (q.from = r.from /\ q.to = r.to)]_vars

\* a review succeeded while the sender has another request, to a third user
C23_Witness ==
    \E s \in Slots :
        /\ req[s].pc = "done" /\ req[s].op = "review" /\ req[s].res = "Reviewed"
        /\ \E r \in records : r.from = req[s].target /\ r.to # req[s].actor

\* ---- C27 ----
\* C27: the status of a stored record changes only in a step of a review
\* called by the record's toUser and naming its fromUser, and a stored record
\* is deleted only in a step of a removeConnection called by its fromUser or
\* its toUser and naming the other.
C27_OnlyPartiesAlter ==
    [][\A r \in records :
        /\ (\E q \in records' : q.id = r.id /\ q.status # r.status)
              => \E s \in Slots :
                    /\ req'[s].op = "review"
                    /\ req'[s].actor = r.to /\ req'[s].target = r.from
        /\ (\A q \in records' : q.id # r.id)
              => \E s \in Slots :
                    /\ req'[s].op = "remove"
                    /\ \/ (req'[s].actor = r.from /\ req'[s].target = r.to)
                       \/ (req'[s].actor = r.to /\ req'[s].target = r.from)]_vars

\* a review succeeded while an interested request of the same sender to a
\* third user and unchanged by it is stored
C27_Witness ==
    \E s \in Slots :
        /\ req[s].pc = "done" /\ req[s].op = "review" /\ req[s].res = "Reviewed"
        /\ \E r \in records :
              r.from = req[s].target /\ r.to # req[s].actor /\ r.status = "interested"

\* ---- C28 ----
\* a record from f to t with status ignored is stored
Ignored(f, t) == \E r \in FindByPair(f, t) : r.status = "ignored"

\* an ignored record is never changed or deleted
IgnoredKept == \A r \in records : r.status = "ignored" => r \in records'

\* a review by B of the ignored record A -> B does not succeed
IgnoredNotReviewed ==
    \A s \in Slots :
        (Completes(s) /\ req'[s].op = "review" /\ Ignored(req'[s].target, req'[s].actor))
            => req'[s].res # "Reviewed"

\* no incoming-requests response lists a record that is stored as ignored
IgnoredNotListed ==
    \A s \in Slots :
        (Completes(s) /\ req'[s].op = "requests")
            => \A e \in req'[s].out.list :
                  \A r \in records : r.id = e.id => r.status # "ignored"

\* C28 as stated: an ignored record A -> B stays for ever; every send from B
\* to A answers ReverseRequestExists, a review by B does not succeed, a
\* removeConnection between A and B finds no connection, and the incoming
\* requests of B do not list the record.
C28_IgnoredDeadEnd ==
    [][/\ IgnoredKept /\ IgnoredNotReviewed /\ IgnoredNotListed
       /\ \A s \in Slots :
            /\ (Completes(s) /\ req'[s].op = "remove" /\ req'[s].res # "Unauthorized"
                    /\ (Ignored(req'[s].actor, req'[s].target)
                          \/ Ignored(req'[s].target, req'[s].actor)))
                  => req'[s].res = "ConnectionNotFound"
            /\ (Completes(s) /\ req'[s].op = "send" /\ req'[s].res # "Unauthorized"
                    /\ Ignored(req'[s].target, req'[s].actor))
                  => req'[s].res = "ReverseRequestExists"]_vars

\* a send from B to A that has not passed its reverse lookup while the ignored
\* record A -> B is stored does not pass it: it writes nothing and it is
\* answered by the first check that fails (InvalidStatus for an invalid
\* status, UserNotFound when A has no account, else ReverseRequestExists)
IgnoredBlocksSend ==
    \A s \in Slots :
        (/\ req'[s] # req[s] /\ req'[s].op = "send"
         /\ req[s].pc \in {"idle", "send_findTo", "send_findReverse"}
         /\ Ignored(req'[s].target, req'[s].actor))
        => /\ records' = records
           /\ req'[s].pc \in {"done", "send_findTo", "send_findReverse"}
           /\ req[s].pc = "send_findReverse"
                => (req'[s].pc = "done" /\ req'[s].res = "ReverseRequestExists")
           /\ req'[s].pc = "done"
                => /\ req'[s].res \in {"Unauthorized", "InvalidStatus",
                                       "UserNotFound", "ReverseRequestExists"}
                   /\ req'[s].res = "Unauthorized" => req'[s].actor \notin users
                   /\ req'[s].res = "InvalidStatus" => req'[s].status \notin SendStatuses
                   /\ req'[s].res = "UserNotFound" => req'[s].target \notin users

\* a removeConnection between A and B beside an ignored record finds no
\* connection, unless an accepted record is stored in the opposite direction
\* (overlapping sends left both): then it deletes that record
IgnoredBlocksRemove ==
    \A s \in Slots :
        (/\ req'[s] # req[s] /\ req'[s].op = "remove"
         /\ (Ignored(req'[s].actor, req'[s].target)
               \/ Ignored(req'[s].target, req'[s].actor)))
        => /\ (req[s].pc = "remove_findConn"
                  /\ ~\E r \in FindByPair(req'[s].actor, req'[s].target)
                            \cup FindByPair(req'[s].target, req'[s].actor) :
                          r.status = "accepted")
                => (req'[s].pc = "done" /\ req'[s].res = "ConnectionNotFound")
           /\ (req'[s].pc = "done" /\ req'[s].res = "ConnectionDeleted")
                => /\ req[s].doc.status = "accepted"
                   /\ \A r \in records \ records' : r.id = req[s].doc.id

\* C28 amended: an ignored record A -> B stays for ever with status ignored;
\* every send from B to A that arrives while it is stored fails and writes
\* nothing, with ReverseRequestExists unless an earlier check fails
\* (InvalidStatus, UserNotFound once A has deleted the account); a review by
\* B never succeeds; a removeConnection between the two answers
\* ConnectionNotFound unless an accepted record B -> A is stored beside it,
\* which it then deletes; and the record is never among B's incoming requests.
\* All of it holds while requests overlap.
C28_IgnoredDeadEndForLaterCalls ==
    [][/\ IgnoredKept /\ IgnoredNotReviewed /\ IgnoredNotListed
       /\ IgnoredBlocksSend /\ IgnoredBlocksRemove]_vars

\* overlapping sends left an ignored record beside a record in the opposite
\* direction; that one was accepted and a removeConnection of the pair
\* succeeded, and the ignored record is still stored
C28_Witness ==
    \E s \in Slots :
        /\ req[s].pc = "done" /\ req[s].op = "remove"
        /\ req[s].res = "ConnectionDeleted"
        /\ Ignored(req[s].actor, req[s].target) \/ Ignored(req[s].target, req[s].actor)

\* ---- C29 ----
\* an interested record r whose sender has no account
Orphan(r) == r.status = "interested" /\ r.from \notin users

\* C29 as stated: an interested record whose sender has deleted their account
\* stays interested for ever: no step changes it, a review of it by the
\* recipient answers UserNotFound, and the incoming requests of the recipient
\* list it.
C29_OrphanStaysInterested ==
    [][/\ \A r \in records : Orphan(r) => r \in records'
       /\ \A s \in Slots :
            /\ (Completes(s) /\ req'[s].op = "review" /\ req'[s].res # "Unauthorized"
                    /\ \E r \in FindByPair(req'[s].target, req'[s].actor) : Orphan(r))
                  => (req'[s].res = "UserNotFound" /\ records' = records)
            /\ (Completes(s) /\ req'[s].op = "requests" /\ req'[s].res # "Unauthorized")
                  => \A r \in records :
                        (r.to = req'[s].actor /\ Orphan(r))
                        => \E e \in req'[s].out.list : e.id = r.id]_vars

\* an orphan record changes only through the save of a review that had passed
\* the sender lookup before the sender's account was deleted
OrphanLeftOnlyBySaveInFlight ==
    \A r \in records :
        (Orphan(r) /\ r \notin records')
        => \E s \in Slots :
              /\ req[s].pc = "review_save" /\ req[s].doc.id = r.id
              /\ req'[s].pc = "done" /\ req'[s].res = "Reviewed"
              /\ records' = (records \ {r}) \cup {[r EXCEPT !.status = req[s].status]}

\* a review by the recipient that has not passed the sender lookup while the
\* record is an orphan does not pass it: it writes nothing and it is answered
\* UserNotFound, or InvalidStatus when the decision is invalid
OrphanBlocksReview ==
    \A s \in Slots :
        (/\ req'[s] # req[s] /\ req'[s].op = "review"
         /\ req[s].pc \in {"idle", "review_findReq", "review_findFrom"}
         /\ \E r \in FindByPair(req'[s].target, req'[s].actor) : Orphan(r))
        => /\ records' = records
           /\ req'[s].pc \in {"done", "review_findReq", "review_findFrom"}
           /\ req[s].pc = "review_findReq" => req'[s].pc = "review_findFrom"
           /\ req[s].pc = "review_findFrom"
                => (req'[s].pc = "done" /\ req'[s].res = "UserNotFound")
           /\ req'[s].pc = "done"
                => /\ req'[s].res \in {"Unauthorized", "InvalidStatus", "UserNotFound"}
                   /\ req'[s].res = "Unauthorized" => req'[s].actor \notin users
                   /\ req'[s].res = "InvalidStatus" => req'[s].status \notin ReviewStatuses

\* the incoming requests of the recipient list an orphan record whenever
\* their query runs while it is stored: the query reads it, and the response
\* lists, with a null sender, every record the query read as interested from
\* a user who has no account when the senders are looked up
OrphanListed ==
    \A s \in Slots :
        /\ (req[s].pc = "requests_find" /\ req'[s] # req[s])
              => \A r \in records :
                    (r.to = req[s].actor /\ Orphan(r))
                    => (req'[s].pc = "requests_populate" /\ r \in req'[s].locals.requests)
        /\ (req[s].pc = "requests_populate" /\ req'[s] # req[s])
              => \A r \in req[s].locals.requests :
                    Orphan(r)
                    => /\ req'[s].pc = "done" /\ req'[s].res = "RequestsFetched"
                       /\ [id |-> r.id, user |-> NullRef] \in req'[s].out.list

\* C29 amended: once the sender of an interested record has deleted their
\* account, a review by the recipient that reaches the sender lookup fails
\* with UserNotFound (InvalidStatus for an invalid decision) and writes
\* nothing; the record leaves the interested state only through a review that
\* had passed the sender lookup before the deletion and saves afterwards; and
\* the incoming requests of the recipient list the record, with a null sender,
\* whenever their query runs while it is stored as interested.  All of it
\* holds while requests overlap.
C29_OrphanLeftOnlyByReviewInFlight ==
    [][OrphanLeftOnlyBySaveInFlight /\ OrphanBlocksReview /\ OrphanListed]_vars

\* the recipient reviewed an interested request of a deleted sender and was
\* answered UserNotFound
C29_Witness ==
    \E s \in Slots :
        /\ req[s].pc = "done" /\ req[s].op = "review"
        /\ req[s].res = "UserNotFound"
        /\ req[s].target \notin users
        /\ \E r \in FindByPair(req[s].target, req[s].actor) : r.status = "interested"

\* ---- C30 ----
\* C30: in every reachable state the list that getConnections answers to a
\* user holds every counterpart user at most once.
C30_CounterpartListedOnce ==
    \A u \in users :
        ~MapThrows(AcceptedRequests(u), users)
            => \A e1 \in Connections(u, AcceptedRequests(u), users, users) :
               \A e2 \in Connections(u, AcceptedRequests(u), users, users) :
                  (e1.user = e2.user /\ e1.user # NullRef) => e1 = e2

\* ---- C24 ----
\* C24: a request to a protected route that arrives with the token of a user
\* who has no account (any more) is answered Unauthorized at once and changes
\* no user and no record; a request with the token of an existing user is
\* never answered Unauthorized.
C24_AuthGuardsEveryRoute ==
    [][\A s \in Slots :
        (req[s].pc = "idle" /\ req'[s].pc # "idle" /\ req'[s].op # "login")
            => /\ (req'[s].actor \notin users) <=> (req'[s].res = "Unauthorized")
               /\ (req'[s].res = "Unauthorized")
                    => /\ req'[s].pc = "done"
                       /\ users' = users /\ docs' = docs /\ records' = records]_vars

\* the token of a deleted account was refused while requests that name the
\* account are stored
C24_Witness ==
    \E s \in Slots :
        /\ req[s].pc = "done" /\ req[s].res = "Unauthorized"
        /\ req[s].actor \notin users
        /\ \E r \in records : r.from = req[s].actor \/ r.to = req[s].actor

\* ---- C25 ----
\* C25: after a password change is answered with success the stored password
\* is the new one: the new password compares equal to it and a different old
\* password does not.
C25_PasswordIsNew ==
    \A s \in Slots :
        (req[s].pc = "done" /\ req[s].op = "updatePassword"
            /\ req[s].res = "PasswordUpdated")
        => /\ Compare(req[s].body.newPassword, UserDoc(req[s].actor).password)
           /\ (req[s].body.oldPassword # req[s].body.newPassword)
                => ~Compare(req[s].body.oldPassword, UserDoc(req[s].actor).password)

\* ---- C26 ----
\* C26: a profile edit of an authenticated user whose body has a key outside
\* photoUrl, about, skills, gender, age, firstName, lastName is answered
\* InvalidUpdates and leaves every stored user as it is; no step of a profile
\* edit changes the emailID or the password of a user.
C26_EditOnlyAllowedFields ==
    [][\A s \in Slots :
        /\ (Completes(s) /\ req'[s].op = "edit" /\ req'[s].res # "Unauthorized"
                /\ \E k \in DOMAIN req'[s].body :
                      k \notin {"photoUrl", "about", "skills", "gender", "age",
                                "firstName", "lastName"})
              => (req'[s].res = "InvalidUpdates" /\ docs' = docs)
        /\ (req'[s] # req[s] /\ req'[s].op = "edit")
              => \A u \in DOMAIN docs :
                    /\ u \in DOMAIN docs'
                    /\ docs'[u].emailID = docs[u].emailID
                    /\ docs'[u].password = docs[u].password]_vars

\* an edit whose body names firstName and emailID was refused; another edit
\* had changed the first name of a user before
C26_Witness ==
    \E s \in Slots :
        /\ req[s].pc = "done" /\ req[s].op = "edit" /\ req[s].res = "InvalidUpdates"
        /\ DOMAIN req[s].body = {"firstName", "emailID"}
        /\ \E u \in users : docs[u].profile["firstName"] # SignupDoc(u).profile["firstName"]
====
